---- MODULE Spec2Model ----
(***************************************************************************)
(* Review cache of the Google Business Profile review service:            *)
(* loadCache / saveCache / mergeReviews and the GET /reviews handler of    *)
(* src/unnamed/part_000.                                                   *)
(*                                                                         *)
(* Six specifications share the module:                                    *)
(*   MergeSpec  the pure function mergeReviews applied to bounded inputs,  *)
(*              its result fed back as the next cached list;               *)
(*   Spec       the server: concurrent GET /reviews requests over one      *)
(*              cache file, from a fresh configured deployment;            *)
(*   SeqSpec    the server handling one request at a time, from any        *)
(*              configuration and any initial content of the cache file.   *)
(*   LiveSpec   one request at a time with fairness, for progress;          *)
(*   PairSpec   two concurrent requests, each handled once, whose responses *)
(*              are compared;                                              *)
(*   RatedSpec  one request after the other over a cache file that already  *)
(*              holds reviews, for the arithmetic of averageRating.        *)
(***************************************************************************)
EXTENDS Integers, Sequences, FiniteSets

(***************************************************************************)
(* Bounds of the model.                                                    *)
(***************************************************************************)
MaxCached == 2
MaxIncoming == 2
MaxRequests == 2
MaxFetched == 1
MaxClock == 2
MaxRated == 7

(***************************************************************************)
(* Review records.  reviewId "" stands for a missing or empty reviewId     *)
(* (both are falsy in `if (review.reviewId)`), createTime "" for a missing *)
(* or unparseable createTime (new Date(..) is an Invalid Date).            *)
(***************************************************************************)
Review(id, ct, star) == [reviewId |-> id, createTime |-> ct, starRating |-> star]

ReviewUniverse ==
    { Review("",   "2025-06-01", "FIVE"),
      Review("r1", "2024-01-01", "FOUR"),
      Review("r1", "2024-01-01", "FIVE"),
      Review("r1", "2025-06-01", "FIVE"),
      Review("r2", "2025-06-01", "FIVE"),
      Review("r2", "",           "FOUR"),
      Review("r3", "2023-03-03", "FIVE"),
      Review("r3", "2024-01-01", "FOUR") }

ListsUpTo(S, n) == UNION { [1..k -> S] : k \in 0..n }

Range(s) == { s[i] : i \in 1..Len(s) }

\* The reviewIds of a list that are usable as keys (non-empty).
Ids(s) == { s[i].reviewId : i \in 1..Len(s) } \ {""}

(***************************************************************************)
(* mergeReviews: the Map keyed by reviewId.  A JS Map iterates in          *)
(* insertion order and Map.set on an existing key replaces the value in    *)
(* place, so the map is a sequence of records with pairwise distinct ids.  *)
(***************************************************************************)
\* Mutant of MapSet: an existing key keeps its old value (first writer wins).
MapSetKeepsExisting(reviewMap, review) ==
    IF \E i \in 1..Len(reviewMap) : reviewMap[i].reviewId = review.reviewId
    THEN reviewMap
    ELSE Append(reviewMap, review)

\* Mutant of MapSet: a plain array push, no key lookup.
MapSetAppends(reviewMap, review) == Append(reviewMap, review)

MapSet(reviewMap, review) ==
    IF \E i \in 1..Len(reviewMap) : reviewMap[i].reviewId = review.reviewId
    THEN [i \in 1..Len(reviewMap) |->
            IF reviewMap[i].reviewId = review.reviewId THEN review ELSE reviewMap[i]]
    ELSE Append(reviewMap, review)

\* list.forEach(review => { if (review.reviewId) reviewMap.set(review.reviewId, review) })
RECURSIVE SetAll(_, _)
SetAll(reviewMap, list) ==
    IF list = <<>> THEN reviewMap
    ELSE SetAll(IF Head(list).reviewId # "" THEN MapSet(reviewMap, Head(list)) ELSE reviewMap,
                Tail(list))

\* new Date(createTime): a time value, or an Invalid Date (NaN) for anything else.
IsValidDate(ct) == ct \in {"2023-03-03", "2024-01-01", "2025-06-01"}

DateValue(ct) ==
    CASE ct = "2023-03-03" -> 1
      [] ct = "2024-01-01" -> 2
      [] ct = "2025-06-01" -> 3

\* Mutant of compareFn: dateA - dateB, oldest first.
compareFnAscending(a, b) ==
    IF IsValidDate(a.createTime) /\ IsValidDate(b.createTime)
    THEN DateValue(a.createTime) - DateValue(b.createTime)
    ELSE 0

\* (a, b) => dateB - dateA, as Array.prototype.sort reads it: a NaN result counts as +0.
compareFn(a, b) ==
    IF IsValidDate(a.createTime) /\ IsValidDate(b.createTime)
    THEN DateValue(b.createTime) - DateValue(a.createTime)
    ELSE 0

\* Mutant of InsertSorted: a record whose date ties with one already placed is lost.
RECURSIVE InsertSortedDropsTies(_, _)
InsertSortedDropsTies(sorted, r) ==
    IF sorted = <<>> THEN <<r>>
    ELSE IF compareFn(Head(sorted), r) > 0 THEN <<r>> \o sorted
    ELSE IF compareFn(Head(sorted), r) = 0 THEN sorted
    ELSE <<Head(sorted)>> \o InsertSortedDropsTies(Tail(sorted), r)

\* Array.prototype.sort is a stable sort when the comparator is consistent.
RECURSIVE InsertSorted(_, _)
InsertSorted(sorted, r) ==
    IF sorted = <<>> THEN <<r>>
    ELSE IF compareFn(Head(sorted), r) > 0 THEN <<r>> \o sorted
    ELSE <<Head(sorted)>> \o InsertSorted(Tail(sorted), r)

RECURSIVE StableSort(_)
StableSort(list) ==
    IF list = <<>> THEN <<>>
    ELSE InsertSorted(StableSort(SubSeq(list, 1, Len(list) - 1)), list[Len(list)])

\* A consistent comparator: "compares equal" is transitive on the elements.
ConsistentComparator(list) ==
    \A a, b, c \in Range(list) :
        (compareFn(a, b) = 0 /\ compareFn(b, c) = 0) => compareFn(a, c) = 0

Reorderings(list) ==
    { [i \in 1..Len(list) |-> list[p[i]]] :
        p \in { q \in [1..Len(list) -> 1..Len(list)] :
                  \A i, j \in 1..Len(list) : i # j => q[i] # q[j] } }

\* merged.sort(...): with an inconsistent comparator (an Invalid Date next to two
\* different valid ones) the order is implementation-defined: any permutation.
SortOutcomes(list) ==
    IF ConsistentComparator(list) THEN { StableSort(list) } ELSE Reorderings(list)

\* Mutant of mergeReviews: the map is built from the incoming list alone.
mergeReviewsIncomingOnly(cachedRevs, newRevs) ==
    SortOutcomes(SetAll(<<>>, newRevs))

\* Mutant of mergeReviews: the two lists are concatenated, no map.
mergeReviewsConcat(cachedRevs, newRevs) ==
    SortOutcomes(SelectSeq(cachedRevs \o newRevs, LAMBDA r : r.reviewId # ""))

\* The results mergeReviews(cachedReviews, newReviews) can return.
mergeReviews(cachedRevs, newRevs) ==
    SortOutcomes(SetAll(SetAll(<<>>, cachedRevs), newRevs))

(***************************************************************************)
(* State.                                                                  *)
(***************************************************************************)
VARIABLES
    cachedReviews,  \* MergeSpec: first argument of the mergeReviews call
    newReviews,     \* MergeSpec: second argument of the mergeReviews call
    merged,         \* MergeSpec: the value returned
    previous,       \* MergeSpec: the result of the call before this one
    mpc,            \* MergeSpec: "call" | "input" | "return" ("off" in Spec)
    mkind,          \* MergeSpec: "first" | "next" | "same": how the call was set up
    store,          \* the document in CACHE_FILE
    now,            \* the clock: the time new Date() returned last
    LOCATION_NAME,  \* process.env.LOCATION_NAME is set
    PLACE_ID,       \* process.env.PLACE_ID ("" when not set)
    req,            \* per request: position in the handler and its local variables
    res             \* per request: the response sent, if any

mvars == <<cachedReviews, newReviews, merged, previous, mpc, mkind>>

svars == <<store, now, LOCATION_NAME, PLACE_ID, req, res>>

vars == <<cachedReviews, newReviews, merged, previous, mpc, mkind,
          store, now, LOCATION_NAME, PLACE_ID, req, res>>

(***************************************************************************)
(* The server: the cache file, loadCache, saveCache and GET /reviews.      *)
(***************************************************************************)
Requests == 1..MaxRequests

\* lastUpdated: null, or a timestamp of the clock (1, 2, ...).
null == 0

\* What CACHE_FILE can hold: nothing, a snapshot { reviews, lastUpdated },
\* text that is not JSON, the JSON object {} (no reviews field), the JSON null,
\* and the beginning of a snapshot that a failed write left behind.
Document(kind, reviews, lastUpdated) ==
    [kind |-> kind, reviews |-> reviews, lastUpdated |-> lastUpdated]

AbsentDocument == Document("absent", <<>>, null)

\* A write that fails after the file was opened (and truncated) leaves a
\* proper prefix of the JSON text of the snapshot: that is not JSON.
PartialDocument == Document("partial", <<>>, null)

InitialDocuments ==
    { AbsentDocument,
      Document("unparseable", <<>>, null),
      Document("object", <<>>, null),
      Document("null", <<>>, null) }

\* A value returned by loadCache: shape "snapshot" has reviews and lastUpdated,
\* shape "object" has neither (both undefined), shape "null" is null.
Loaded(shape, reviews, lastUpdated) ==
    [shape |-> shape, reviews |-> reviews, lastUpdated |-> lastUpdated]

EmptySnapshot == Loaded("snapshot", <<>>, null)

\* loadCache(): readOk is whether fs.readFileSync returns instead of throwing.
loadCache(doc, readOk) ==
    IF doc.kind = "absent" THEN EmptySnapshot
    ELSE IF ~readOk THEN EmptySnapshot
    ELSE IF doc.kind \in {"unparseable", "partial"} THEN EmptySnapshot
    ELSE Loaded(doc.kind, doc.reviews, doc.lastUpdated)

\* fs.writeFileSync(CACHE_FILE, text) opens the file with flag 'w' (truncate),
\* writes the text and closes: it returns ("written"), throws before the file
\* is touched ("failed": EACCES, EROFS, ...) or throws after the truncation
\* ("torn": ENOSPC, EIO, ...).
WriteOutcomes == {"written", "failed", "torn"}

\* saveCache(cache): the error of a write that throws is logged, nothing else.
saveCache(doc, cache, outcome) ==
    CASE outcome = "written" -> Document("snapshot", cache.reviews, cache.lastUpdated)
      [] outcome = "failed" -> doc
      [] outcome = "torn" -> PartialDocument

\* What the review endpoint of Google can answer with.
UpstreamUniverse ==
    { Review("",   "2025-06-01", "FIVE"),
      Review("r1", "2024-01-01", "FOUR"),
      Review("r2", "2025-06-01", "STAR_RATING_UNSPECIFIED") }

FetchedLists == ListsUpTo(UpstreamUniverse, MaxFetched)

\* What locations.get can answer with: title and metadata.placeId ("" when missing).
LocationInfos ==
    { [title |-> "Glasgow Drum School", placeId |-> "ChIJ-metadata"] }

NoLocationInfo == [title |-> "", placeId |-> ""]

starValues(starRating) ==
    CASE starRating = "FIVE"  -> 5
      [] starRating = "FOUR"  -> 4
      [] starRating = "THREE" -> 3
      [] starRating = "TWO"   -> 2
      [] starRating = "ONE"   -> 1
      [] OTHER -> 0

\* allReviews.reduce((acc, review) => acc + (starValues[review.starRating] || 0), 0)
RECURSIVE StarSum(_)
StarSum(list) ==
    IF list = <<>> THEN 0 ELSE starValues(Head(list).starRating) + StarSum(Tail(list))

(***************************************************************************)
(* averageRating = sum / allReviews.length is a division of JS Numbers:    *)
(* the result is the IEEE 754 double nearest to the quotient.  For         *)
(* integers s >= 1 and n >= 1 put E = floor(log2(s / n)) and k = 52 - E.   *)
(* The double nearest to s / n is m * 2^(-k), m the integer nearest to     *)
(* s * 2^k / n, so that s * 2^k = m * n + e with |e| < n / 2 (no tie for   *)
(* n < 2^47): e is the signed remainder of s * 2^k by n.                   *)
(***************************************************************************)
\* floor(log2(a / b)) for integers a >= 1, b >= 1.
RECURSIVE FloorLog2(_, _)
FloorLog2(a, b) ==
    IF a >= 2 * b THEN 1 + FloorLog2(a, 2 * b)
    ELSE IF a >= b THEN 0
    ELSE FloorLog2(2 * a, b) - 1

\* 2^k, and 2^k modulo n.
RECURSIVE Pow2(_)
Pow2(k) == IF k = 0 THEN 1 ELSE 2 * Pow2(k - 1)

RECURSIVE Pow2Mod(_, _)
Pow2Mod(k, n) == IF k = 0 THEN 1 % n ELSE (2 * Pow2Mod(k - 1, n)) % n

\* e in s * 2^k = m * n + e, for the double m * 2^(-k) that s / n evaluates to.
QuotientError(s, n) ==
    LET k == 52 - FloorLog2(s, n)
        rem == ((s % n) * Pow2Mod(k, n)) % n
    IN  IF 2 * rem > n THEN rem - n ELSE rem

\* (s / n) * n === s in JS Numbers.  The exact product is s - e * 2^(-k); it
\* rounds to s when it is no further from s than half the distance to the
\* next double: 2^(P - 53) with P = floor(log2(s)), and 2^(P - 54) below a
\* power of two.
QuotientTimesDivisorIs(s, n) ==
    IF s = 0 THEN TRUE
    ELSE LET e == QuotientError(s, n)
             gap == Pow2(FloorLog2(s, 1) - FloorLog2(s, n))
         IN  IF e = 0 THEN TRUE
             ELSE IF e > 0 /\ s = Pow2(FloorLog2(s, 1)) THEN 4 * e <= gap
             ELSE IF e > 0 THEN 2 * e <= gap
             ELSE 2 * (0 - e) <= gap

\* Mutant of AverageRating: the divisor counts the recognized ratings only.
AverageRatingOfRecognized(allReviews) ==
    LET recognized == SelectSeq(allReviews, LAMBDA review : starValues(review.starRating) > 0)
    IN  IF Len(recognized) > 0
        THEN [num |-> StarSum(allReviews), den |-> Len(recognized)]
        ELSE [num |-> 0, den |-> 1]

\* averageRating: the double that num / den evaluates to (0 for an empty list).
AverageRating(allReviews) ==
    IF Len(allReviews) > 0
    THEN [num |-> StarSum(allReviews), den |-> Len(allReviews)]
    ELSE [num |-> 0, den |-> 1]

\* A request that is not being handled, and the local variables of the handler.
\* seen, readOk, saved and savedLastUpdated record what the handler did:
\* the document in CACHE_FILE when loadCache ran, whether readFileSync returned,
\* whether writeFileSync returned, and the lastUpdated passed to saveCache.
IdleRequest ==
    [pc |-> "idle", cache |-> EmptySnapshot, newReviews |-> <<>>, fetchError |-> FALSE,
     allReviews |-> <<>>, seen |-> AbsentDocument, readOk |-> FALSE,
     saved |-> FALSE, savedLastUpdated |-> null]

NoResponse == [status |-> 0]

ServerAtRest ==
    /\ store = AbsentDocument
    /\ now = 1
    /\ LOCATION_NAME = TRUE
    /\ PLACE_ID = ""
    /\ req = [r \in Requests |-> IdleRequest]
    /\ res = [r \in Requests |-> NoResponse]

(***************************************************************************)
(* MergeSpec: mergeReviews on bounded inputs.                              *)
(***************************************************************************)
MergeInit ==
    /\ cachedReviews \in ListsUpTo(ReviewUniverse, MaxCached)
    /\ newReviews \in ListsUpTo(ReviewUniverse, MaxIncoming)
    /\ merged = <<>>
    /\ previous = <<>>
    /\ mpc = "call"
    /\ mkind = "first"
    /\ ServerAtRest

\* The call returns.
MergeCall ==
    /\ mpc \in {"call", "input"}
    /\ merged' \in mergeReviews(cachedReviews, newReviews)
    /\ mpc' = "return"
    /\ UNCHANGED <<cachedReviews, newReviews, previous, mkind>>
    /\ UNCHANGED svars

\* The next call of a sequence is set up: the previous result is the cached
\* list, the incoming list is arbitrary (AddIncoming builds it).
MergeNextCall ==
    /\ mpc = "return"
    /\ mkind # "same"
    /\ cachedReviews' = merged
    /\ newReviews' = <<>>
    /\ previous' = merged
    /\ merged' = <<>>
    /\ mpc' = "input"
    /\ mkind' = "next"
    /\ UNCHANGED svars

\* One more record of the incoming list of the next call.
AddIncoming ==
    /\ mpc = "input"
    /\ Len(newReviews) < MaxIncoming
    /\ \E review \in ReviewUniverse : newReviews' = Append(newReviews, review)
    /\ UNCHANGED <<cachedReviews, merged, previous, mpc, mkind, svars>>

\* The same incoming list merged a second time into the result of the first merge.
MergeSameAgain ==
    /\ mpc = "return"
    /\ mkind # "same"
    /\ cachedReviews' = merged
    /\ previous' = merged
    /\ merged' = <<>>
    /\ mpc' = "call"
    /\ mkind' = "same"
    /\ UNCHANGED <<newReviews, svars>>

MergeNext == MergeCall \/ MergeNextCall \/ AddIncoming \/ MergeSameAgain

MergeSpec == MergeInit /\ [][MergeNext]_vars

(***************************************************************************)
(* GET /reviews.  The handler runs on one thread: the code between two     *)
(* awaits is one step.  It awaits getAccessToken, axios.get and            *)
(* businessInfoClient.locations.get.                                       *)
(***************************************************************************)
Set(r, record) == [req EXCEPT ![r] = record]

Send(r, response) == [res EXCEPT ![r] = response]

\* Any configuration of the environment and any initial content of CACHE_FILE.
AnyInit ==
    /\ store \in InitialDocuments
    /\ now = 1
    /\ LOCATION_NAME \in BOOLEAN
    /\ PLACE_ID \in {"", "ChIJ-env"}
    /\ req = [r \in Requests |-> IdleRequest]
    /\ res = [r \in Requests |-> NoResponse]
    /\ cachedReviews = <<>>
    /\ newReviews = <<>>
    /\ merged = <<>>
    /\ previous = <<>>
    /\ mpc = "off"
    /\ mkind = "first"

\* A fresh deployment: LOCATION_NAME configured, PLACE_ID not set, no cache file.
Init ==
    /\ AnyInit
    /\ store = AbsentDocument
    /\ LOCATION_NAME = TRUE
    /\ PLACE_ID = ""

\* res.status(400).json({ error: "LOCATION_NAME not configured" })
BadRequest == [status |-> 400, error |-> TRUE]

\* Mutant of Start: no check of LOCATION_NAME before loadCache() and the fetch.
StartWithoutCheck(r) ==
    /\ req[r].pc = "idle"
    /\ \E readOk \in BOOLEAN :
          req' = Set(r, [IdleRequest EXCEPT
                            !.pc = "token",
                            !.cache = loadCache(store, readOk),
                            !.seen = store,
                            !.readOk = readOk])
    /\ res' = Send(r, NoResponse)
    /\ UNCHANGED <<store, now, LOCATION_NAME, PLACE_ID, mvars>>

\* The request arrives: the configuration check, loadCache(), and the call of
\* getAccessToken.
Start(r) ==
    /\ req[r].pc = "idle"
    /\ IF ~LOCATION_NAME
       THEN /\ req' = Set(r, [IdleRequest EXCEPT !.pc = "done"])
            /\ res' = Send(r, BadRequest)
       ELSE /\ \E readOk \in BOOLEAN :
                 req' = Set(r, [IdleRequest EXCEPT
                                   !.pc = "token",
                                   !.cache = loadCache(store, readOk),
                                   !.seen = store,
                                   !.readOk = readOk])
            /\ res' = Send(r, NoResponse)
    /\ UNCHANGED <<store, now, LOCATION_NAME, PLACE_ID, mvars>>

\* The outer catch: a fresh loadCache() and the 500 response.  When the loaded
\* value is null, reading cache.reviews throws inside the catch block: the
\* handler is over (its locals are gone) and the request is never answered.
ErrorResponse(cache) ==
    [status |-> 500, error |-> TRUE,
     reviews |-> cache.reviews,
     averageRating |-> [num |-> 0, den |-> 1],
     totalReviewCount |-> Len(cache.reviews),
     cached |-> TRUE,
     cacheInfo |-> [totalCached |-> Len(cache.reviews),
                    newFromGoogle |-> 0,
                    lastUpdated |-> cache.lastUpdated]]

Catch(r, fetched, err) ==
    /\ \E readOk \in BOOLEAN :
          LET cache == loadCache(store, readOk) IN
          IF cache.shape = "null"
          THEN /\ req' = Set(r, [IdleRequest EXCEPT !.pc = "hung"])
               /\ res' = res
          ELSE /\ req' = Set(r, [req[r] EXCEPT !.pc = "done", !.newReviews = fetched,
                                                !.fetchError = err])
               /\ res' = Send(r, ErrorResponse(cache))
    /\ UNCHANGED <<store, now, LOCATION_NAME, PLACE_ID, mvars>>

\* new Date().toISOString(): the clock never runs backwards; any time may have
\* passed since it was read last.
Date == now..MaxClock

\* After the inner try: mergeReviews, saveCache, and the call of locations.get.
\* cache.reviews of a loaded value that is no snapshot throws (outer catch).
MergeAndSave(r, fetched, err) ==
    LET cache == req[r].cache IN
    IF cache.shape # "snapshot"
    THEN Catch(r, fetched, err)
    ELSE \E allReviews \in mergeReviews(cache.reviews, fetched), outcome \in WriteOutcomes :
           /\ now' \in Date
           /\ store' = saveCache(store, [reviews |-> allReviews, lastUpdated |-> now'], outcome)
           /\ req' = Set(r, [req[r] EXCEPT
                                !.pc = "location",
                                !.newReviews = fetched,
                                !.fetchError = err,
                                !.allReviews = allReviews,
                                !.saved = (outcome = "written"),
                                !.savedLastUpdated = now'])
           /\ UNCHANGED <<LOCATION_NAME, PLACE_ID, res, mvars>>

\* getAccessToken resolves: axios.get is called.
TokenOk(r) ==
    /\ req[r].pc = "token"
    /\ req' = Set(r, [req[r] EXCEPT !.pc = "fetch"])
    /\ UNCHANGED <<store, now, LOCATION_NAME, PLACE_ID, res, mvars>>

\* getAccessToken rejects: fetchError = err, newReviews stays [].
TokenFail(r) ==
    /\ req[r].pc = "token"
    /\ MergeAndSave(r, <<>>, TRUE)

\* axios.get resolves with a list (or no reviews field: || []).
FetchOk(r) ==
    /\ req[r].pc = "fetch"
    /\ \E fetched \in FetchedLists : MergeAndSave(r, fetched, FALSE)

\* axios.get rejects: fetchError = err, newReviews stays [].
FetchFail(r) ==
    /\ req[r].pc = "fetch"
    /\ MergeAndSave(r, <<>>, TRUE)

\* axios.get resolves with a reviews field that is no array: the inner try
\* ends without an error and newReviews.forEach throws in mergeReviews.
FetchMalformed(r) ==
    /\ req[r].pc = "fetch"
    /\ Catch(r, <<>>, FALSE)

\* Mutant of NormalResponse: cacheInfo.lastUpdated is the time just written.
NormalResponseReportsSaved(r, locationInfo) ==
    LET q == req[r] IN
    [status |-> 200, error |-> FALSE,
     reviews |-> q.allReviews,
     averageRating |-> AverageRating(q.allReviews),
     totalReviewCount |-> Len(q.allReviews),
     name |-> IF locationInfo.title # "" THEN locationInfo.title ELSE "Our Business",
     placeId |-> IF PLACE_ID # "" THEN PLACE_ID
                 ELSE IF locationInfo.placeId # "" THEN locationInfo.placeId
                 ELSE "null",
     cached |-> q.fetchError,
     cacheInfo |-> [totalCached |-> Len(q.allReviews),
                    newFromGoogle |-> Len(q.newReviews),
                    lastUpdated |-> q.savedLastUpdated]]

\* Mutant of NormalResponse: cached is true whatever the fetch did.
NormalResponseAlwaysCached(r, locationInfo) ==
    [NormalResponseReportsSaved(r, locationInfo) EXCEPT
        !.cached = TRUE,
        !.cacheInfo.lastUpdated = req[r].cache.lastUpdated]

\* Mutant of NormalResponse: totalCached counts what CACHE_FILE holds after
\* saveCache, the loaded list when the write failed.
NormalResponseCountsWritten(r, locationInfo) ==
    [NormalResponseReportsSaved(r, locationInfo) EXCEPT
        !.cacheInfo.totalCached =
            IF req[r].saved THEN Len(req[r].allReviews) ELSE Len(req[r].cache.reviews),
        !.cacheInfo.lastUpdated = req[r].cache.lastUpdated]

\* res.json({...}) of the normal path.
NormalResponse(r, locationInfo) ==
    LET q == req[r] IN
    [status |-> 200, error |-> FALSE,
     reviews |-> q.allReviews,
     averageRating |-> AverageRating(q.allReviews),
     totalReviewCount |-> Len(q.allReviews),
     name |-> IF locationInfo.title # "" THEN locationInfo.title ELSE "Our Business",
     placeId |-> IF PLACE_ID # "" THEN PLACE_ID
                 ELSE IF locationInfo.placeId # "" THEN locationInfo.placeId
                 ELSE "null",
     cached |-> q.fetchError,
     cacheInfo |-> [totalCached |-> Len(q.allReviews),
                    newFromGoogle |-> Len(q.newReviews),
                    lastUpdated |-> q.cache.lastUpdated]]

\* locations.get resolves.
LocationOk(r) ==
    /\ req[r].pc = "location"
    /\ \E locationInfo \in LocationInfos : res' = Send(r, NormalResponse(r, locationInfo))
    /\ req' = Set(r, [req[r] EXCEPT !.pc = "done"])
    /\ UNCHANGED <<store, now, LOCATION_NAME, PLACE_ID, mvars>>

\* Mutant of LocationFail: the rejection is not caught locally and reaches the
\* outer catch.
LocationFailEscapes(r) ==
    /\ req[r].pc = "location"
    /\ Catch(r, req[r].newReviews, req[r].fetchError)

\* locations.get rejects: locationInfo stays {}.
LocationFail(r) ==
    /\ req[r].pc = "location"
    /\ res' = Send(r, NormalResponse(r, NoLocationInfo))
    /\ req' = Set(r, [req[r] EXCEPT !.pc = "done"])
    /\ UNCHANGED <<store, now, LOCATION_NAME, PLACE_ID, mvars>>

\* The response is out; the next request can use the slot.
Finish(r) ==
    /\ req[r].pc = "done"
    /\ req' = Set(r, IdleRequest)
    /\ res' = Send(r, NoResponse)
    /\ UNCHANGED <<store, now, LOCATION_NAME, PLACE_ID, mvars>>

Next ==
    \E r \in Requests :
          \/ Start(r)
          \/ TokenOk(r)
          \/ TokenFail(r)
          \/ FetchOk(r)
          \/ FetchFail(r)
          \/ FetchMalformed(r)
          \/ LocationOk(r)
          \/ LocationFail(r)
          \/ Finish(r)

Spec == Init /\ [][Next]_vars

\* One request at a time: a request starts when no other one is being handled.
SeqStart(r) ==
    /\ \A q \in Requests : req[q].pc \in {"idle", "hung"}
    /\ Start(r)

SeqNext ==
    \E r \in Requests :
          \/ SeqStart(r)
          \/ TokenOk(r)
          \/ TokenFail(r)
          \/ FetchOk(r)
          \/ FetchFail(r)
          \/ FetchMalformed(r)
          \/ LocationOk(r)
          \/ LocationFail(r)
          \/ Finish(r)

SeqSpec == AnyInit /\ [][SeqNext]_vars

(***************************************************************************)
(* LiveSpec: one request at a time from a fresh deployment, with the       *)
(* progress the code can count on.  A promise that settles is followed by  *)
(* its continuation; getAccessToken and locations.get are taken to settle. *)
(* axios.get is called without a timeout option (the default, 0, means no  *)
(* timeout) and nothing else bounds the wait: whether the review request   *)
(* ever settles is up to the network, so no fairness is assumed for it.    *)
(***************************************************************************)
Fairness ==
    \A r \in Requests :
        /\ WF_vars(TokenOk(r) \/ TokenFail(r))
        /\ WF_vars(LocationOk(r) \/ LocationFail(r))
        /\ WF_vars(Finish(r))

LiveSpec == Init /\ [][SeqNext]_vars /\ Fairness

(***************************************************************************)
(* PairSpec: two concurrent requests, each handled once, over no cache     *)
(* file or one that holds a review: both responses stay on record and can  *)
(* be compared.                                                            *)
(***************************************************************************)
PairInit ==
    /\ store \in { AbsentDocument,
                    Document("snapshot", <<Review("r1", "2024-01-01", "FIVE")>>, 1) }
    /\ now = 1
    /\ LOCATION_NAME = TRUE
    /\ PLACE_ID = ""
    /\ req = [r \in Requests |-> IdleRequest]
    /\ res = [r \in Requests |-> NoResponse]
    /\ cachedReviews = <<>>
    /\ newReviews = <<>>
    /\ merged = <<>>
    /\ previous = <<>>
    /\ mpc = "off"
    /\ mkind = "first"

PairNext ==
    \E r \in {1, 2} :
          \/ Start(r)
          \/ TokenOk(r)
          \/ TokenFail(r)
          \/ FetchOk(r)
          \/ FetchFail(r)
          \/ FetchMalformed(r)
          \/ LocationOk(r)
          \/ LocationFail(r)

PairSpec == PairInit /\ [][PairNext]_vars

(***************************************************************************)
(* RatedSpec: one request after the other over a cache file that holds     *)
(* up to MaxRated reviews, rated in every combination of three ratings     *)
(* (listed by rating: the sum of the star values does not depend on the    *)
(* order).                                                                 *)
(***************************************************************************)
StoredIds == <<"s1", "s2", "s3", "s4", "s5", "s6", "s7", "s8", "s9">>

RatedList(k, fives, fours) ==
    [i \in 1..k |->
        Review(StoredIds[i], "2024-01-01",
               IF i <= fives THEN "FIVE"
               ELSE IF i <= fives + fours THEN "FOUR"
               ELSE "STAR_RATING_UNSPECIFIED")]

RatedLists ==
    { RatedList(k, fives, fours) :
        k \in 0..MaxRated, fives \in 0..MaxRated, fours \in 0..MaxRated }

RatedInit ==
    /\ store \in { Document("snapshot", list, 1) : list \in RatedLists }
    /\ now = 1
    /\ LOCATION_NAME = TRUE
    /\ PLACE_ID = ""
    /\ req = [r \in Requests |-> IdleRequest]
    /\ res = [r \in Requests |-> NoResponse]
    /\ cachedReviews = <<>>
    /\ newReviews = <<>>
    /\ merged = <<>>
    /\ previous = <<>>
    /\ mpc = "off"
    /\ mkind = "first"

\* The requests come one after the other: one handler at a time is enough.
RatedNext ==
    \/ SeqStart(1)
    \/ TokenOk(1)
    \/ TokenFail(1)
    \/ FetchOk(1)
    \/ FetchFail(1)
    \/ FetchMalformed(1)
    \/ LocationOk(1)
    \/ LocationFail(1)
    \/ Finish(1)

RatedSpec == RatedInit /\ [][RatedNext]_vars

(***************************************************************************)
(* Properties of mergeReviews (MergeSpec).                                 *)
(***************************************************************************)
Returned == mpc = "return"

NoDuplicateIds(list) ==
    \A i, j \in 1..Len(list) : i # j => list[i].reviewId # list[j].reviewId

\* The last record of list with the given reviewId.
LastWithId(list, id) ==
    list[CHOOSE i \in 1..Len(list) :
            /\ list[i].reviewId = id
            /\ \A j \in (i + 1)..Len(list) : list[j].reviewId # id]

\* C1: in a sequence of mergeReviews calls, each taking the previous result as
\* its cached list, every non-empty reviewId of the cached list is a reviewId
\* of the result: the set of distinct ids never shrinks.
C1_MonotonicIds == Returned => Ids(cachedReviews) \subseteq Ids(merged)

\* A later call of a sequence returned; the incoming list misses an id of the
\* cached list and brings a new one.
C1_Witness ==
    /\ Returned /\ mkind = "next"
    /\ cachedReviews = previous
    /\ Ids(cachedReviews) \ Ids(newReviews) # {}
    /\ Ids(newReviews) \ Ids(cachedReviews) # {}

\* C7: for every reviewId that occurs in the incoming list, the record of the
\* result with that id is the last incoming record with that id, whole; every
\* non-empty incoming id has a record in the result.
C7_IncomingWins ==
    Returned =>
        /\ \A i \in 1..Len(merged) :
              merged[i].reviewId \in { newReviews[k].reviewId : k \in 1..Len(newReviews) }
                 => merged[i] = LastWithId(newReviews, merged[i].reviewId)
        /\ \A id \in Ids(newReviews) : \E i \in 1..Len(merged) : merged[i].reviewId = id

\* The id is cached and comes in twice, with two different contents, the
\* last of which differs from the cached record and is in the result.
C7_Witness ==
    /\ Returned
    /\ \E c \in Range(cachedReviews) : \E i, j \in 1..Len(newReviews) :
          /\ i < j
          /\ c.reviewId # ""
          /\ newReviews[i].reviewId = c.reviewId
          /\ newReviews[j].reviewId = c.reviewId
          /\ newReviews[i] # newReviews[j]
          /\ newReviews[j] # c
          /\ newReviews[j] \in Range(merged)

\* C8 as stated: for a cached list with distinct reviewIds, each cached record
\* whose reviewId does not occur in the incoming list is in the result, unchanged.
C8_Original ==
    (Returned /\ NoDuplicateIds(cachedReviews)) =>
        \A c \in Range(cachedReviews) :
            c.reviewId \notin { newReviews[k].reviewId : k \in 1..Len(newReviews) }
               => c \in Range(merged)

\* C8 amended: the same for each cached record whose reviewId is non-empty
\* (a cached record without a reviewId is dropped by mergeReviews).
C8_CachedRetained ==
    (Returned /\ NoDuplicateIds(cachedReviews)) =>
        \A c \in Range(cachedReviews) :
            (c.reviewId # "" /\
             c.reviewId \notin { newReviews[k].reviewId : k \in 1..Len(newReviews) })
               => c \in Range(merged)

\* Two cached records with distinct ids; the incoming list has one of the ids only.
C8_Witness ==
    /\ Returned /\ NoDuplicateIds(cachedReviews)
    /\ Len(cachedReviews) >= 2
    /\ Ids(newReviews) # {}
    /\ Ids(newReviews) \subseteq Ids(cachedReviews)
    /\ \E c \in Range(cachedReviews) :
          c.reviewId # "" /\ c.reviewId \notin Ids(newReviews) /\ c \in Range(merged)

\* C9: no two records of a list returned by mergeReviews have the same
\* reviewId, whatever repetitions the cached and the incoming list contain.
C9_UniqueIds == Returned => NoDuplicateIds(merged)

\* The cached list and the incoming list each repeat an id.
C9_Witness ==
    /\ Returned
    /\ Len(merged) >= 1
    /\ \E i, j \in 1..Len(cachedReviews) :
          i # j /\ cachedReviews[i].reviewId = cachedReviews[j].reviewId
                /\ cachedReviews[i].reviewId # ""
    /\ \E i, j \in 1..Len(newReviews) :
          i # j /\ newReviews[i].reviewId = newReviews[j].reviewId
                /\ newReviews[i].reviewId # ""

\* C10: merging the incoming list F a second time, into mergeReviews(S, F),
\* returns the same set of records as the first merge, without duplicates.
C10_Idempotent ==
    (Returned /\ mkind = "same") =>
        /\ Range(merged) = Range(previous)
        /\ Len(merged) = Len(previous)
        /\ NoDuplicateIds(merged)

\* The second merge of the same list returned; the first one changed a cached
\* record and added a new one.
C10_Witness ==
    /\ Returned /\ mkind = "same"
    /\ cachedReviews = previous
    /\ Len(previous) >= 2
    /\ \E i \in 1..Len(newReviews) : newReviews[i] \in Range(merged)
    /\ Range(previous) \ Range(newReviews) # {}

\* Every record of the list has a createTime new Date() can parse.
AllParseable(list) == \A i \in 1..Len(list) : IsValidDate(list[i].createTime)

\* C11: when every cached and incoming record has a parseable createTime, the
\* result is ordered newest first: no record stands before a record with a
\* strictly later createTime.
C11_NewestFirst ==
    (Returned /\ AllParseable(cachedReviews) /\ AllParseable(newReviews)) =>
        \A i, j \in 1..Len(merged) :
            i < j => DateValue(merged[i].createTime) >= DateValue(merged[j].createTime)

\* Three records with three different dates were merged, the oldest one first
\* in the cached list and the newest one incoming.
C11_Witness ==
    /\ Returned /\ AllParseable(cachedReviews) /\ AllParseable(newReviews)
    /\ Len(merged) = 3
    /\ Len(cachedReviews) = 2
    /\ DateValue(cachedReviews[1].createTime) < DateValue(cachedReviews[2].createTime)
    /\ DateValue(merged[1].createTime) > DateValue(merged[2].createTime)
    /\ DateValue(merged[2].createTime) > DateValue(merged[3].createTime)
    /\ merged[1] \in Range(newReviews)

(***************************************************************************)
(* Properties of GET /reviews.                                             *)
(***************************************************************************)
\* The handler of r is past saveCache on the normal path.
PastSave(r) ==
    \/ req[r].pc = "location"
    \/ req[r].pc = "done" /\ res[r].status = 200

\* r got the normal (non-500, non-400) response.
NormalDone(r) == req[r].pc = "done" /\ res[r].status = 200

\* loadCache of r returned what CACHE_FILE held (or found no file).
LoadedTheFile(r) == req[r].readOk \/ req[r].seen.kind = "absent"

\* r writes CACHE_FILE in this step.
Persists(r) ==
    /\ req[r].pc \in {"token", "fetch"}
    /\ req'[r].pc = "location"
    /\ req'[r].saved

\* C2: with one GET /reviews cycle after the other, load, fetch and persist each
\* failing or not, every snapshot written to CACHE_FILE contains every reviewId
\* of the snapshot stored immediately before the write.
C2_PersistSuperset ==
    [][\A r \in Requests :
          Persists(r) => Ids(store.reviews) \subseteq Ids(store'.reviews)]_vars

C4_LastUpdatedIffFetched ==
    \A r \in Requests :
        (PastSave(r) /\ req[r].saved) =>
            /\ ~req[r].fetchError => store.lastUpdated = now
            /\ req[r].fetchError => store.lastUpdated = req[r].cache.lastUpdated

\* C5: in every normal response cacheInfo.lastUpdated is the lastUpdated the
\* same cycle passed to saveCache.
C5_ResponseReportsPersisted ==
    \A r \in Requests :
        NormalDone(r) => res[r].cacheInfo.lastUpdated = req[r].savedLastUpdated

\* C6: with requests in flight at the same time, each of which loaded
\* CACHE_FILE, no persist removes a reviewId from CACHE_FILE.
C6_NoLostIds ==
    [][\A r \in Requests :
          (Persists(r) /\ LoadedTheFile(r))
             => Ids(store.reviews) \subseteq Ids(store'.reviews)]_vars

\* r was answered with a body that has a cached flag: the normal response or
\* the HTTP 500 response.
AnsweredWithFlag(r) == req[r].pc = "done" /\ res[r].status \in {200, 500}

HasLoaded(r) == req[r].pc \in {"token", "fetch", "location"}

\* C13: loadCache returns for every state of CACHE_FILE, and when the file is
\* absent, unreadable, not parseable, or parseable but no snapshot
\* { reviews, lastUpdated }, the value returned is the empty snapshot.
C13_LoadFailsOpen ==
    \A r \in Requests :
        (HasLoaded(r) /\ (req[r].seen.kind # "snapshot" \/ ~req[r].readOk))
            => req[r].cache = EmptySnapshot

\* C14: a request whose handler enters the outer catch is answered, whatever
\* CACHE_FILE holds: HTTP 500 with an error, cached true, newFromGoogle 0 and
\* the reviews a fresh loadCache() returns.
C14_ErrorPathAnswers ==
    \A r \in Requests :
        /\ req[r].pc # "hung"
        /\ (req[r].pc = "done" /\ res[r].status = 500) =>
              /\ res[r].error
              /\ res[r].cached
              /\ res[r].cacheInfo.newFromGoogle = 0
              /\ \E readOk \in BOOLEAN : res[r].reviews = loadCache(store, readOk).reviews

\* The handler of r called saveCache (the time passed to it is not null).
CalledSave(r) == req[r].savedLastUpdated # null

\* r and q loaded the same snapshot and their fetches ended the same way.
SameInputs(r, q) ==
    /\ req[r].cache = req[q].cache
    /\ req[r].newReviews = req[q].newReviews
    /\ req[r].fetchError = req[q].fetchError

\* C15: a request that called saveCache gets the normal response whether the
\* write succeeded or not, and two requests with the same loaded snapshot, the
\* same fetch outcome and the same location lookup get the same status and body,
\* one write succeeding and the other failing.
C15_PersistFailureInvisible ==
    /\ \A r \in Requests :
          (req[r].pc = "done" /\ CalledSave(r)) => res[r].status = 200
    /\ \A r, q \in Requests :
          (NormalDone(r) /\ NormalDone(q) /\ SameInputs(r, q)
             /\ res[r].name = res[q].name) => res[r] = res[q]

\* Two answered requests that loaded the same stored review and fetched the
\* same new one; the write of one succeeded, the write of the other failed.
C15_Witness ==
    \E r, q \in Requests :
        /\ NormalDone(r) /\ NormalDone(q) /\ SameInputs(r, q)
        /\ res[r].name = res[q].name
        /\ req[r].saved /\ ~req[q].saved
        /\ Len(req[r].cache.reviews) >= 1
        /\ Ids(req[r].newReviews) \ Ids(req[r].cache.reviews) # {}

\* C16: when locations.get fails the request gets the normal response, with the
\* reviews, averageRating, totalReviewCount, cached and cacheInfo it gets when
\* the lookup succeeds; name is the default business name and placeId is the
\* configured PLACE_ID, or null.
C16_LocationFailureTolerated ==
    [][\A r \in Requests :
          LocationFail(r) =>
              /\ res'[r].status = 200
              /\ res'[r].name = "Our Business"
              /\ res'[r].placeId = (IF PLACE_ID # "" THEN PLACE_ID ELSE "null")
              /\ \A locationInfo \in LocationInfos :
                    LET ok == NormalResponse(r, locationInfo) IN
                    /\ res'[r].reviews = ok.reviews
                    /\ res'[r].averageRating = ok.averageRating
                    /\ res'[r].totalReviewCount = ok.totalReviewCount
                    /\ res'[r].cached = ok.cached
                    /\ res'[r].cacheInfo = ok.cacheInfo]_vars

\* A request with a review to return was answered after its location lookup
\* failed, with PLACE_ID configured.
C16_Witness ==
    \E r \in Requests :
        /\ NormalDone(r)
        /\ res[r].name = "Our Business"
        /\ PLACE_ID # "" /\ res[r].placeId = PLACE_ID
        /\ Len(res[r].reviews) >= 1

\* C17: without LOCATION_NAME a request is answered with HTTP 400 and nothing
\* else happens: CACHE_FILE is not written, loadCache is not called (the
\* handler has no loaded value) and no token or review request is issued.
C17_NotConfigured ==
    [][~LOCATION_NAME =>
          /\ store' = store
          /\ \A r \in Requests :
                /\ req'[r].pc \in {"idle", "done"}
                /\ req'[r].pc = "done" =>
                      /\ res'[r] = BadRequest
                      /\ req'[r].seen = AbsentDocument
                      /\ req'[r].cache = EmptySnapshot
                      /\ ~req'[r].saved]_vars

\* A request was answered with HTTP 400 while CACHE_FILE holds a document that
\* loadCache would have returned as it is.
C17_Witness ==
    \E r \in Requests :
        /\ ~LOCATION_NAME
        /\ req[r].pc = "done" /\ res[r].status = 400
        /\ store.kind = "object"

\* The ratings starValues has a key for.
RecognizedRatings == {"ONE", "TWO", "THREE", "FOUR", "FIVE"}

\* C18 as stated: in every normal response averageRating times the number of
\* merged records is the sum of the star values of the merged records, a rating
\* outside ONE..FIVE adding 0 to the sum and 1 to the divisor and to
\* totalReviewCount; averageRating is 0 for no records.
C18_Original ==
    \A r \in Requests :
        NormalDone(r) =>
            LET reviews == res[r].reviews
                average == res[r].averageRating
            IN  /\ res[r].totalReviewCount = Len(reviews)
                /\ average.num = StarSum(reviews)
                /\ Len(reviews) > 0 =>
                      /\ average.den = Len(reviews)
                      /\ QuotientTimesDivisorIs(average.num, average.den)
                /\ Len(reviews) = 0 => average.num = 0

\* C18 amended: in every normal response averageRating is the double that the
\* sum of the star values divided by the number of merged records evaluates
\* to, a rating outside ONE..FIVE adding 0 to the sum and 1 to the divisor and
\* to totalReviewCount; averageRating is 0 for no records.
C18_AverageRating ==
    \A r \in Requests :
        NormalDone(r) =>
            LET reviews == res[r].reviews
                average == res[r].averageRating
            IN  /\ res[r].totalReviewCount = Len(reviews)
                /\ average.num = StarSum(reviews)
                /\ Len(reviews) > 0 => average.den = Len(reviews)
                /\ Len(reviews) = 0 => average.num = 0
                /\ \A i \in 1..Len(reviews) :
                      /\ starValues(reviews[i].starRating) \in 0..5
                      /\ starValues(reviews[i].starRating) = 0
                            <=> reviews[i].starRating \notin RecognizedRatings

\* A normal response with seven records, one of them with an unrecognized
\* rating: averageRating is 29 / 7.
C18_Witness ==
    \E r \in Requests :
        /\ NormalDone(r)
        /\ Len(res[r].reviews) = 7
        /\ \E i \in 1..7 : res[r].reviews[i].starRating \notin RecognizedRatings
        /\ res[r].averageRating = [num |-> 29, den |-> 7]
        /\ res[r].totalReviewCount = 7

\* C19: no loadCache of a request reads a partially written CACHE_FILE: with
\* requests in flight at the same time, the document a load reads is a complete
\* snapshot, the one before or the one after each write.
C19_NoPartialRead ==
    \A r \in Requests :
        (HasLoaded(r) \/ req[r].pc = "done")
            => ~(req[r].readOk /\ req[r].seen.kind = "partial")

\* C20: an upstream response whose reviews field is no list is handled like a
\* failed fetch: the handler goes on to the normal response with no new
\* records and the fetch marked as failed (cached: true), not to HTTP 500.
C20_MalformedIsFetchFailure ==
    [][\A r \in Requests :
          (FetchMalformed(r) /\ req[r].cache.shape = "snapshot") =>
              /\ req'[r].pc = "location"
              /\ req'[r].fetchError
              /\ req'[r].newReviews = <<>>
              /\ res'[r].status # 500]_vars

\* The handler of r is waiting for getAccessToken, axios.get or locations.get.
Pending(r) == req[r].pc \in {"token", "fetch", "location"}

\* C21: every request with LOCATION_NAME configured is answered in the end,
\* also when the review request to Google never settles.
C21_EventuallyAnswered ==
    \A r \in Requests : Pending(r) ~> (req[r].pc = "done")

====
